---- MODULE Spec2Model ----
(***************************************************************************)
(* State-machine model of src/app/GameCanvas.tsx (the GameCanvas React     *)
(* component of the Flappy-Bird clone).                                    *)
(*                                                                         *)
(* Representation of numbers.  Horizontal coordinates are whole pixels.    *)
(* Vertical coordinates and the vertical velocity are kept in units of     *)
(* 1/Scale pixel, so that gravity (0.4 px) is the integer 2 and every      *)
(* value the code computes from it is an integer.  The score is kept in    *)
(* half points (the code adds 0.5 per obstacle).                           *)
(*                                                                         *)
(* React state.  running, showMenu and loaded are the values of the last   *)
(* render; a setState call queues a value that the next Render commits.    *)
(* The input handlers are re-registered after every render, so flap reads  *)
(* the values of the last render, while the refs are read directly.        *)
(*                                                                         *)
(* Environment.  sinceSpawn relates the two clocks: the spawn interval     *)
(* fires SpawnTicks ticks after it was armed or last fired, or again       *)
(* before the next tick (frames paused while timers keep firing).  The     *)
(* player flaps at the velocities of FlapTimes.                            *)
(*                                                                         *)
(* Animation.  The sprite-animation counters (frameTickRef, frameIndexRef)  *)
(* are written by step and idleLoop and read by no handler to decide       *)
(* anything else.  AnimSpec follows them from their initial 0; the other   *)
(* specifications do not: there they hold Unfollowed, which step leaves    *)
(* as it is.  Drawing and sounds are not part of the state.  The dt of     *)
(* step is computed and never used.                                        *)
(***************************************************************************)
EXTENDS Integers, Sequences, FiniteSets, TLC

(* ---------------- constants (lines 6-15, 33, 46, 82) ---------------- *)
Scale == 5
BOARD_W == 360
BOARD_H == 640
BIRD_W == 34
BIRD_H == 24
BIRD_X == BOARD_W \div 8
BIRD_Y == BOARD_H \div 2
PIPE_W == 64
PIPE_H == 512
PIPE_X == BOARD_W
gravity == 2
FlapVelocity == (-6) * Scale
PipeStep == -2
ScoreInc == 1
\* the opening as half of the board height
openingSpaceHalf == BOARD_H \div 2
openingSpace == BOARD_H \div 4
LoadQuorum == 3
EXPECTED_FRAMES == 4
FRAME_TICK_RATE == 6

(* a pixel length as a stored vertical value *)
V(px) == px * Scale

(* ---------------- bounds of the model ---------------- *)
\* the random draw of spawnPipePair is one of k/RandDen, k \in 0..RandDen-1
RandDen == 2
\* the spawn timer is not fired while the sequence holds MaxPairs pairs
MaxPairs == 3
\* no tick is taken once the score (in half points) has reached MaxScore
MaxScore == 4
\* ticks per spawn interval (1500 ms at a 60 Hz display refresh)
SpawnTicks == 90
\* the player presses flap while Running only when falling at this velocity
\* (or FlapSpread units faster), or again right after a flap
FlapAt == 28
FlapSpread == 0
\* the random draws followed when only spawning is looked at:
\* Math.random() in steps of 1/DrawDen
DrawDen == 160
\* a second player: taps at the start and then whenever the rise has slowed
\* to TapRise steps of gravity per tick, which is a steady climb
TapRise == 5

VARIABLES
    bird,               \* birdRef.current: [x, y, width, height]
    velocityY,          \* velocityYRef.current
    pipes,              \* pipesRef.current
    score,              \* scoreRef.current, in half points
    gameOver,           \* gameOverRef.current
    intervalRef,        \* placePipesIntervalRef.current holds a timer id
    intervals,          \* number of live window.setInterval timers
    sinceSpawn,         \* ticks since the spawn timer was armed or last fired
    loaded, running, showMenu,      \* React state as of the last render
    pendLoaded, pendRunning, pendShowMenu,  \* queued setState values
    checks,             \* the counter of checkLoaded
    framesLeft,         \* frame images whose load/error callback has not fired
    fallbackLeft,       \* the fallback image has not resolved yet
    stepRaf,            \* the pending requestAnimationFrame(step): none/first/rearmed
    frameTick,          \* frameTickRef.current
    frameIndex          \* frameIndexRef.current

vars == <<bird, velocityY, pipes, score, gameOver, intervalRef, intervals,
          sinceSpawn, loaded, running, showMenu, pendLoaded, pendRunning,
          pendShowMenu, checks, framesLeft, fallbackLeft, stepRaf,
          frameTick, frameIndex>>

gameVars == <<bird, velocityY, pipes, score, gameOver>>
timerVars == <<intervalRef, intervals, sinceSpawn>>
uiVars == <<loaded, running, showMenu>>
pendVars == <<pendLoaded, pendRunning, pendShowMenu>>
assetVars == <<checks, framesLeft, fallbackLeft>>
frameVars == <<frameTick, frameIndex>>

(* ---------------- helpers ---------------- *)
\* setState(v): the queued value replaces any value queued before
Queued(v) == <<v>>
\* the state value a render commits
Commit(cur, pend) == IF pend = <<>> THEN cur ELSE pend[1]

InitialBird == [x |-> BIRD_X, y |-> V(BIRD_Y), width |-> BIRD_W, height |-> V(BIRD_H)]

\* Math.random() * (PIPE_H / 2), for the draws k/RandDen
RandomOffsets == { (k * V(PIPE_H \div 2)) \div RandDen : k \in 0..(RandDen - 1) }

\* detectCollision with the player's height left out of the last comparison
detectCollisionNoHeight(a, b) ==
    /\ a.x < b.x + b.width
    /\ a.x + a.width > b.x
    /\ a.y < b.y + b.height
    /\ a.y > b.y

\* detectCollision(a, b), lines 159-166
detectCollision(a, b) ==
    /\ a.x < b.x + b.width
    /\ a.x + a.width > b.x
    /\ a.y < b.y + b.height
    /\ a.y + a.height > b.y

\* spawnPipePair with the lower pipe placed without the opening
spawnPipePairNoOpening(ps, off) ==
    LET randomPipeY == (0 - V(PIPE_H \div 4)) - off
        tp == [img |-> "top", x |-> PIPE_X, y |-> randomPipeY,
               width |-> PIPE_W, height |-> V(PIPE_H), passed |-> FALSE]
        bp == [img |-> "bottom", x |-> PIPE_X, y |-> randomPipeY + V(PIPE_H),
               width |-> PIPE_W, height |-> V(PIPE_H), passed |-> FALSE]
    IN  Append(Append(ps, tp), bp)

\* spawnPipePair putting the new pair at the head of the sequence
spawnPipePairAtHead(ps, off) ==
    LET randomPipeY == (0 - V(PIPE_H \div 4)) - off
        tp == [img |-> "top", x |-> PIPE_X, y |-> randomPipeY,
               width |-> PIPE_W, height |-> V(PIPE_H), passed |-> FALSE]
        bp == [img |-> "bottom", x |-> PIPE_X,
               y |-> randomPipeY + V(PIPE_H) + V(openingSpace),
               width |-> PIPE_W, height |-> V(PIPE_H), passed |-> FALSE]
    IN  <<tp, bp>> \o ps

\* spawnPipePair placing the lower half one obstacle width further right
spawnPipePairStaggered(ps, off) ==
    LET randomPipeY == (0 - V(PIPE_H \div 4)) - off
        tp == [img |-> "top", x |-> PIPE_X, y |-> randomPipeY,
               width |-> PIPE_W, height |-> V(PIPE_H), passed |-> FALSE]
        bp == [img |-> "bottom", x |-> PIPE_X + PIPE_W,
               y |-> randomPipeY + V(PIPE_H) + V(openingSpace),
               width |-> PIPE_W, height |-> V(PIPE_H), passed |-> FALSE]
    IN  Append(Append(ps, tp), bp)

\* spawnPipePair(), lines 252-275; off is Math.random() * (PIPE_H / 2)
spawnPipePair(ps, off) ==
    LET randomPipeY == (0 - V(PIPE_H \div 4)) - off
        tp == [img |-> "top", x |-> PIPE_X, y |-> randomPipeY,
               width |-> PIPE_W, height |-> V(PIPE_H), passed |-> FALSE]
        bp == [img |-> "bottom", x |-> PIPE_X,
               y |-> randomPipeY + V(PIPE_H) + V(openingSpace),
               width |-> PIPE_W, height |-> V(PIPE_H), passed |-> FALSE]
    IN  Append(Append(ps, tp), bp)

\* the body of the for loop of step for one pipe, lines 194-202: move, then score
Crossed(b, p) == ~p.passed /\ b.x > p.x + p.width
MovePipe(p) == [p EXCEPT !.x = p.x + PipeStep]
\* StepPipe that scores without setting the passed flag
StepPipeNoFlag(b, p) == MovePipe(p)
StepPipe(b, p) ==
    LET m == MovePipe(p)
    IN  IF Crossed(b, m) THEN [m EXCEPT !.passed = TRUE] ELSE m

\* how many obstacles of ps flip their passed flag in this tick
RECURSIVE NewlyPassed(_, _)
NewlyPassed(b, ps) ==
    IF ps = <<>> THEN 0
    ELSE (IF Crossed(b, MovePipe(Head(ps))) THEN 1 ELSE 0) + NewlyPassed(b, Tail(ps))

\* lines 204-207 over the whole loop: some advanced pipe overlaps the bird
AnyCollision(b, ps) == \E i \in 1..Len(ps) : detectCollision(b, ps[i])

\* OffScreen taken at the player's right edge in place of the board's left edge
OffScreenAtPlayer(p) == p.x < BIRD_X + BIRD_W
\* line 226: remove off-screen pipes from the head
OffScreen(p) == p.x < 0 - PIPE_W
\* Recycle with an if in place of the while: at most one removal per tick
RecycleOnce(ps) ==
    IF Len(ps) > 0 /\ OffScreen(Head(ps)) THEN Tail(ps) ELSE ps
RECURSIVE Recycle(_)
Recycle(ps) ==
    IF Len(ps) > 0 /\ OffScreen(Head(ps)) THEN Recycle(Tail(ps)) ELSE ps

\* the ground check without the player's height
GroundHitNoHeight(b) == b.y > V(BOARD_H)
\* line 229: ground check
\* the ground test with >= in place of >
GroundHitInclusive(b) == b.y >= V(BOARD_H) - V(BIRD_H)
GroundHit(b) == b.y > V(BOARD_H) - V(BIRD_H)

\* lines 185-186: velocityY += gravity; bird.y += velocityY
NextVelocity(v) == v + gravity
\* the position integrated before gravity is added
NextYStale(y, v) == y + v
NextY(y, v) == y + NextVelocity(v)

\* lines 234-236: the tick requests the next frame unless the game is over
RearmAlways(over) == "rearmed"
Rearm(over) == IF over THEN "none" ELSE "rearmed"

\* lines 238-241: clearInterval of the spawn timer; n live timers remain
StopIntervalForgotten(ref, n) == n
StopInterval(ref, n) == IF ref THEN n - 1 ELSE n

(* ---------------- sprite animation, lines 137-141 and 177-182 ---------------- *)
\* the value the frame counters hold where they are not followed
Unfollowed == 0 - 1
\* Math.max(1, birdFramesRef.current.length || 1): the mount effect has
\* pushed the EXPECTED_FRAMES images before any loop runs
FrameCount == IF EXPECTED_FRAMES > 1 THEN EXPECTED_FRAMES ELSE 1
\* frameTickRef.current++, then the reset at the rate of the loop
NextFrameTick(t, rate) ==
    IF t = Unfollowed THEN t
    ELSE IF t + 1 >= rate THEN 0 ELSE t + 1
\* the index advanced without the modulo
NextFrameIndexNoWrap(t, i, rate) ==
    IF t = Unfollowed THEN i
    ELSE IF t + 1 >= rate THEN i + 1 ELSE i
NextFrameIndex(t, i, rate) ==
    IF t = Unfollowed THEN i
    ELSE IF t + 1 >= rate THEN (i + 1) % FrameCount ELSE i

(* ---------------- initial state ---------------- *)
InitSession ==
    /\ bird = InitialBird
    /\ velocityY = 0
    /\ pipes = <<>>
    /\ score = 0
    /\ gameOver = FALSE
    /\ intervalRef = FALSE
    /\ intervals = 0
    /\ sinceSpawn = 0
    /\ loaded = FALSE
    /\ running = FALSE
    /\ showMenu = TRUE
    /\ pendLoaded = <<>>
    /\ pendRunning = <<>>
    /\ pendShowMenu = <<>>
    /\ checks = 0
    /\ framesLeft = EXPECTED_FRAMES
    /\ fallbackLeft = TRUE
    /\ stepRaf = "none"

Init ==
    /\ InitSession
    /\ frameTick = Unfollowed
    /\ frameIndex = Unfollowed

\* lines 44-45: both frame counters start at 0
AnimInit ==
    /\ InitSession
    /\ frameTick = 0
    /\ frameIndex = 0

(* ---------------- idleLoop(), lines 124-144 ---------------- *)
\* requested by the mount effect and by itself: it runs on every frame,
\* before and during a session
idleLoop ==
    /\ frameTick # Unfollowed
    /\ frameTick' = NextFrameTick(frameTick, FRAME_TICK_RATE * 2)
    /\ frameIndex' = NextFrameIndex(frameTick, frameIndex, FRAME_TICK_RATE * 2)
    /\ UNCHANGED <<gameVars, timerVars, uiVars, pendVars, assetVars, stepRaf>>

(* ---------------- asset callbacks, lines 80-117 ---------------- *)
\* checkLoaded waiting for every asset: the four frames and the fallback
checkLoadedNeedsAll ==
    /\ checks' = checks + 1
    /\ pendLoaded' = IF checks + 1 > EXPECTED_FRAMES THEN Queued(TRUE) ELSE pendLoaded

\* checkLoaded(); its closure reads the loaded of the first render (false)
checkLoaded ==
    /\ checks' = checks + 1
    /\ pendLoaded' = IF checks + 1 > LoadQuorum THEN Queued(TRUE) ELSE pendLoaded

\* img.onload / img.onerror of one frame image
FrameCallback ==
    /\ framesLeft > 0
    /\ framesLeft' = framesLeft - 1
    /\ checkLoaded
    /\ UNCHANGED <<fallbackLeft, pendRunning, pendShowMenu>>
    /\ UNCHANGED <<gameVars, timerVars, uiVars, stepRaf, frameVars>>

\* fallback.onload
FallbackLoad ==
    /\ fallbackLeft
    /\ fallbackLeft' = FALSE
    /\ checkLoaded
    /\ UNCHANGED <<framesLeft, pendRunning, pendShowMenu>>
    /\ UNCHANGED <<gameVars, timerVars, uiVars, stepRaf, frameVars>>

\* the fallback image fails to load: it has no error callback
FallbackError ==
    /\ fallbackLeft
    /\ fallbackLeft' = FALSE
    /\ UNCHANGED <<checks, framesLeft, pendVars>>
    /\ UNCHANGED <<gameVars, timerVars, uiVars, stepRaf, frameVars>>

(* ---------------- startGame(), lines 277-314 ---------------- *)
\* startGame without line 281: the old obstacles are kept
startGameKeepPipes(off) ==
    /\ bird' = InitialBird
    /\ velocityY' = 0
    /\ pipes' = spawnPipePair(pipes, off)
    /\ score' = 0
    /\ gameOver' = FALSE
    /\ intervals' = StopInterval(intervalRef, intervals) + 1
    /\ intervalRef' = TRUE
    /\ sinceSpawn' = 0
    /\ pendRunning' = Queued(TRUE)
    /\ pendShowMenu' = Queued(FALSE)

startGame(off) ==
    /\ bird' = InitialBird
    /\ velocityY' = 0
    /\ pipes' = spawnPipePair(<<>>, off)
    /\ score' = 0
    /\ gameOver' = FALSE
    /\ intervals' = StopInterval(intervalRef, intervals) + 1
    /\ intervalRef' = TRUE
    /\ sinceSpawn' = 0
    /\ pendRunning' = Queued(TRUE)
    /\ pendShowMenu' = Queued(FALSE)

(* ---------------- the Start button, lines 379-388 ---------------- *)
StartButton ==
    /\ showMenu
    /\ loaded
    /\ \E off \in RandomOffsets : startGame(off)
    /\ UNCHANGED <<loaded, running, showMenu, pendLoaded, assetVars, stepRaf, frameVars>>

\* the Start button with the draw of the first pair taken from FineOffsets
FineOffsets == { (k * V(PIPE_H \div 2)) \div DrawDen : k \in 0..(DrawDen - 1) }
StartDraw ==
    /\ showMenu
    /\ loaded
    /\ \E off \in FineOffsets : startGame(off)
    /\ UNCHANGED <<loaded, running, showMenu, pendLoaded, assetVars, stepRaf, frameVars>>

(* ---------------- flap(), lines 316-329 ---------------- *)
\* the handlers are re-registered after every render (lines 332-360), so
\* flap reads running, showMenu and loaded as of the last render
\* flap without the loaded test of line 318
FlapStartUnloaded ==
    /\ ~running
    /\ showMenu
    /\ \E off \in RandomOffsets : startGame(off)
    /\ UNCHANGED <<loaded, running, showMenu, pendLoaded, assetVars, stepRaf, frameVars>>

FlapStart ==
    /\ ~running
    /\ showMenu /\ loaded
    /\ \E off \in RandomOffsets : startGame(off)
    /\ UNCHANGED <<loaded, running, showMenu, pendLoaded, assetVars, stepRaf, frameVars>>

\* flap without lines 323-326: an impulse although the game is over
FlapRestartImpulse ==
    /\ running
    /\ gameOver
    /\ velocityY' = FlapVelocity
    /\ UNCHANGED <<bird, pipes, score, gameOver>>
    /\ UNCHANGED <<timerVars, uiVars, pendVars, assetVars, stepRaf, frameVars>>

FlapRestart ==
    /\ running
    /\ gameOver
    /\ \E off \in RandomOffsets : startGame(off)
    /\ UNCHANGED <<loaded, running, showMenu, pendLoaded, assetVars, stepRaf, frameVars>>

FlapTimes == (FlapAt..(FlapAt + FlapSpread)) \cup {FlapVelocity}

\* the impulse also applied to the position at once
FlapImpulseJump ==
    /\ running
    /\ ~gameOver
    /\ velocityY \in FlapTimes
    /\ velocityY' = FlapVelocity
    /\ bird' = [bird EXCEPT !.y = @ + FlapVelocity]
    /\ UNCHANGED <<pipes, score, gameOver>>
    /\ UNCHANGED <<timerVars, uiVars, pendVars, assetVars, stepRaf, frameVars>>

\* the impulse added to the velocity instead of replacing it
FlapImpulseAdditive ==
    /\ running
    /\ ~gameOver
    /\ velocityY \in FlapTimes
    /\ velocityY' = velocityY + FlapVelocity
    /\ UNCHANGED <<bird, pipes, score, gameOver>>
    /\ UNCHANGED <<timerVars, uiVars, pendVars, assetVars, stepRaf, frameVars>>

FlapImpulse ==
    /\ running
    /\ ~gameOver
    /\ velocityY \in FlapTimes
    /\ velocityY' = FlapVelocity
    /\ UNCHANGED <<bird, pipes, score, gameOver>>
    /\ UNCHANGED <<timerVars, uiVars, pendVars, assetVars, stepRaf, frameVars>>

\* the impulse of lines 327-328 under the second player's timing
FlapTap ==
    /\ running
    /\ ~gameOver
    /\ \/ velocityY = 0 /\ bird.y = V(BIRD_Y)
       \/ velocityY = 0 - TapRise * gravity
    /\ velocityY' = FlapVelocity
    /\ UNCHANGED <<bird, pipes, score, gameOver>>
    /\ UNCHANGED <<timerVars, uiVars, pendVars, assetVars, stepRaf, frameVars>>

(* ---------------- step(now), lines 168-245 ---------------- *)
\* step is only ever created by the [running] effect with running true, so
\* the branch of lines 172-175 is never taken
Tick ==
    /\ stepRaf # "none"
    /\ score < MaxScore
    \* a spawn interval that has elapsed fires before the next frame
    /\ ~(intervals > 0 /\ sinceSpawn >= SpawnTicks /\ Len(pipes) + 2 <= 2 * MaxPairs)
    /\ LET v == NextVelocity(velocityY)
           b == [bird EXCEPT !.y = NextY(bird.y, velocityY)]
           moved == [i \in 1..Len(pipes) |-> StepPipe(b, pipes[i])]
           over == gameOver \/ AnyCollision(b, moved) \/ GroundHit(b)
       IN  /\ velocityY' = v
           /\ bird' = b
           /\ score' = score + ScoreInc * NewlyPassed(b, pipes)
           /\ pipes' = Recycle(moved)
           /\ gameOver' = over
           /\ stepRaf' = Rearm(over)
           /\ IF ~over
              THEN UNCHANGED <<intervalRef, intervals, pendRunning, pendShowMenu>>
              ELSE /\ intervals' = StopInterval(intervalRef, intervals)
                   /\ intervalRef' = FALSE
                   /\ pendShowMenu' = Queued(TRUE)
                   /\ pendRunning' = Queued(FALSE)
    /\ sinceSpawn' = IF sinceSpawn < SpawnTicks THEN sinceSpawn + 1 ELSE sinceSpawn
    /\ frameTick' = NextFrameTick(frameTick, FRAME_TICK_RATE)
    /\ frameIndex' = NextFrameIndex(frameTick, frameIndex, FRAME_TICK_RATE)
    /\ UNCHANGED <<uiVars, pendLoaded, assetVars>>

(* ---------------- the spawn interval callback, lines 307-309 ---------------- *)
SpawnTimer ==
    /\ intervals > 0
    /\ ~gameOver
    /\ sinceSpawn = 0 \/ sinceSpawn >= SpawnTicks
    /\ Len(pipes) + 2 <= 2 * MaxPairs
    /\ \E off \in RandomOffsets : pipes' = spawnPipePair(pipes, off)
    /\ sinceSpawn' = 0
    /\ UNCHANGED <<bird, velocityY, score, gameOver, intervalRef, intervals>>
    /\ UNCHANGED <<uiVars, pendVars, assetVars, stepRaf, frameVars>>

(* ---------------- a React render and its effects ---------------- *)
\* commits the queued state; the [running] effect of lines 153-249 runs when
\* running changed: its cleanup cancels the first frame request only, and
\* with running true it requests the first frame of a new step loop
Render ==
    /\ pendLoaded # <<>> \/ pendRunning # <<>> \/ pendShowMenu # <<>>
    /\ loaded' = Commit(loaded, pendLoaded)
    /\ running' = Commit(running, pendRunning)
    /\ showMenu' = Commit(showMenu, pendShowMenu)
    /\ pendLoaded' = <<>>
    /\ pendRunning' = <<>>
    /\ pendShowMenu' = <<>>
    /\ stepRaf' = IF running' = running THEN stepRaf
                  ELSE IF running' THEN "first"
                  ELSE IF stepRaf = "first" THEN "none" ELSE stepRaf
    /\ UNCHANGED <<gameVars, timerVars, assetVars, frameVars>>

Next ==
    \/ FrameCallback
    \/ FallbackLoad
    \/ FallbackError
    \/ StartButton
    \/ FlapStart
    \/ FlapRestart
    \/ FlapImpulse
    \/ Tick
    \/ SpawnTimer
    \/ Render

Spec == Init /\ [][Next]_vars

(* a session in which the player never presses flap: it is started from the
   Start button, and frames, timers and renders are scheduled fairly *)
NextNoFlap ==
    \/ FrameCallback
    \/ FallbackLoad
    \/ FallbackError
    \/ StartButton
    \/ Tick
    \/ SpawnTimer
    \/ Render

NoFlapSpec ==
    /\ Init /\ [][NextNoFlap]_vars
    /\ WF_vars(Tick) /\ WF_vars(Render) /\ WF_vars(SpawnTimer)

(* a session started from the Start button and played by the second player;
   the four frame images resolve and the fallback image stays pending *)
NextTap ==
    \/ FrameCallback
    \/ StartButton
    \/ FlapTap
    \/ Tick
    \/ SpawnTimer
    \/ Render

TapSpec == Init /\ [][NextTap]_vars

(* spawning alone: the assets load and the Start button is pressed, over a
   fine grid of random draws; no frame is stepped *)
NextDraw ==
    \/ FrameCallback
    \/ StartDraw
    \/ Render

DrawSpec == Init /\ [][NextDraw]_vars

(* the animation followed: the idle loop runs on every frame next to a
   session that is started from the Start button and played without flaps *)
NextAnim ==
    \/ FrameCallback
    \/ StartButton
    \/ idleLoop
    \/ Tick
    \/ Render

AnimSpec == AnimInit /\ [][NextAnim]_vars

(* asset loading: every frame image resolves (load or error) and queued
   state is rendered; nothing is assumed about the fallback image *)
LoadSpec ==
    /\ Init /\ [][NextNoFlap]_vars
    /\ WF_vars(FrameCallback) /\ WF_vars(Render)

(***************************************************************************)
(* Properties                                                              *)
(***************************************************************************)
\* the handlers as the properties name them
IsStart == StartButton \/ FlapStart \/ FlapRestart
IsFlap == FlapStart \/ FlapRestart \/ FlapImpulse
\* the value of the running state once the queued updates are rendered
RunningNext == Commit(running, pendRunning)
ShowMenuNext == Commit(showMenu, pendShowMenu)

\* two rectangles share interior points
Overlaps(a, b) ==
    ~ \/ a.x + a.width <= b.x
      \/ b.x + b.width <= a.x
      \/ a.y + a.height <= b.y
      \/ b.y + b.height <= a.y
PlayerOverlapsObstacle == \E i \in 1..Len(pipes) : Overlaps(bird, pipes[i])
GroundLine == (BOARD_H - BIRD_H) * Scale

\* C1: whenever the player's rectangle overlaps a live obstacle (the state a
\* tick leaves behind, as no other handler moves the player or an obstacle
\* into an overlap), the game-over flag is set and no further tick is armed.
C1_CollisionEndsTick ==
    PlayerOverlapsObstacle => gameOver /\ stepRaf = "none"
C1_Witness ==
    /\ PlayerOverlapsObstacle
    /\ gameOver
    /\ bird.y <= GroundLine
    /\ stepRaf = "none"

\* C2: while the game-over flag is set the spawn timer is cancelled and no
\* tick is armed, and every step that leaves the flag set (every step but a
\* start or restart) leaves player, velocity, obstacles and score unchanged.
C2_FrozenAfterGameOver ==
    /\ [](gameOver => intervals = 0 /\ ~intervalRef /\ stepRaf = "none")
    /\ [][gameOver /\ gameOver' => UNCHANGED <<bird, velocityY, pipes, score>>]_vars
C2_Witness ==
    /\ gameOver
    /\ ~running /\ showMenu
    /\ Len(pipes) >= 4
    /\ score > 0

\* C3: in every step that is not a start or restart, the score grows by
\* exactly one half point per obstacle whose passed flag flips from false to
\* true in that step (so it never decreases), and no passed flag of an
\* obstacle that stays in the sequence reverts to false.
C3_ScoreStep ==
    [][ ~IsStart =>
          LET k == IF Len(pipes') <= Len(pipes) THEN Len(pipes) - Len(pipes') ELSE 0
              kept == (k + 1)..Len(pipes)
              flips == { i \in kept : ~pipes[i].passed /\ pipes'[i - k].passed }
          IN  /\ score' = score + ScoreInc * Cardinality(flips)
              /\ score' >= score
              /\ \A i \in kept : pipes[i].passed => pipes'[i - k].passed
      ]_vars
C3_Witness ==
    /\ score = 2 * ScoreInc
    /\ ~gameOver
    /\ \E i \in 1..Len(pipes) : pipes[i].passed
    /\ \E i \in 1..Len(pipes) : ~pipes[i].passed

\* the session state a start leaves: one fresh pair, the player reset, the
\* spawn timer armed, and running true / menu hidden at the next render
OnePairAtSpawn(ps) ==
    /\ Len(ps) = 2
    /\ ps[1].x = BOARD_W /\ ps[2].x = BOARD_W
    /\ ~ps[1].passed /\ ~ps[2].passed
    /\ ps[2].y - (ps[1].y + ps[1].height) = (BOARD_H \div 4) * Scale
FreshSession ==
    /\ score = 0
    /\ OnePairAtSpawn(pipes)
    /\ bird = [x |-> BOARD_W \div 8, y |-> (BOARD_H \div 2) * Scale,
               width |-> BIRD_W, height |-> BIRD_H * Scale]
    /\ velocityY = 0
    /\ ~gameOver
    /\ intervalRef /\ intervals = 1
    /\ RunningNext /\ ~ShowMenuNext

\* C4: a flap is never ignored while the game-over flag is set, and every
\* flap taken then leaves the state of a fresh start.
C4_FlapRestartsFromGameOver ==
    /\ [](gameOver => running \/ (showMenu /\ loaded))
    /\ [][IsFlap /\ gameOver => FreshSession']_vars
\* a restart by flap before the game-over render: only then is running still
\* true as of the last render while a start has queued setRunning(true)
C4_Witness ==
    /\ running /\ pendRunning = <<TRUE>>
    /\ FreshSession

\* C5: every start (the Start button, a flap in Idle, a flap in GameOver)
\* leaves exactly one fresh pair at x = BOARD_W, score 0, the game-over flag
\* false, the player at (BOARD_W/8, BOARD_H/2) with velocity 0 and exactly
\* one spawn timer armed, whatever the state before.
C5_StartResets ==
    [][IsStart => FreshSession']_vars
\* a start from the menu has just run: its state updates are queued and
\* neither a render nor a tick nor a spawn-timer event has followed
C5_Witness ==
    /\ ~running /\ showMenu /\ pendRunning = <<TRUE>> /\ pendShowMenu = <<FALSE>>
    /\ FreshSession
    /\ sinceSpawn = 0
    /\ stepRaf = "none"

C7_NoOffScreenObstacle ==
    \A i \in 1..Len(pipes) : pipes[i].x + pipes[i].width >= 0
\* a tick has just removed a pair: the oldest obstacle left is unpassed
\* although the score shows that a pair was crossed
C7_Witness ==
    /\ score >= 2 * ScoreInc
    /\ Len(pipes) > 0
    /\ \A i \in 1..Len(pipes) : ~pipes[i].passed

\* C8: every tick adds gravity to the velocity and then the new velocity to
\* y, and its ground check reads the new y.
C8_GravityThenPosition ==
    [][ Tick =>
          /\ velocityY' = velocityY + gravity
          /\ bird'.y = bird.y + velocityY'
          /\ bird'.x = bird.x
          /\ (bird'.y > GroundLine => gameOver')
      ]_vars
\* a tick has run with a velocity beyond any the player flaps at (no cap)
C8_Witness ==
    /\ stepRaf = "rearmed"
    /\ velocityY > FlapAt + FlapSpread + gravity

\* C9: a flap accepted while Running sets the velocity to -6, whatever it was
\* (so a second flap leaves what the first one left).
C9_FlapOverrides ==
    [][IsFlap /\ running /\ ~gameOver => velocityY' = (-6) * Scale]_vars
C9_Witness ==
    /\ running /\ ~gameOver
    /\ velocityY = (-6) * Scale
    /\ stepRaf = "rearmed"

\* C10: without flap input and with frames, timers and renders scheduled
\* fairly, a started session reaches GameOver by the ground condition; the
\* game is over as soon as y exceeds the ground line, the spawn timer is then
\* stopped, and the size of the sequence no longer changes while the
\* game-over flag stays set.
C10_FallsToGameOver ==
    /\ (intervalRef /\ ~gameOver)
          ~> (gameOver /\ bird.y > GroundLine /\ ~PlayerOverlapsObstacle
                /\ intervals = 0 /\ ~intervalRef)
    /\ [](bird.y > GroundLine => gameOver /\ intervals = 0)
    /\ [][gameOver /\ gameOver' => Len(pipes') = Len(pipes)]_vars
C10_Witness ==
    /\ gameOver
    /\ bird.y > GroundLine
    /\ intervals = 0
    /\ Len(pipes) >= 4

\* C11: while the loaded flag of the last render is false, the session is the
\* idle one whatever start requests and flaps arrived: not running, menu
\* shown, no obstacles, score 0, player at its initial position and at rest,
\* no spawn timer, no tick armed and no state update queued by a start.
C11_NoStartBeforeLoaded ==
    ~loaded =>
        /\ ~running /\ showMenu
        /\ pendRunning = <<>> /\ pendShowMenu = <<>>
        /\ pipes = <<>> /\ score = 0
        /\ bird = InitialBird /\ velocityY = 0
        /\ ~gameOver
        /\ intervals = 0 /\ ~intervalRef
        /\ stepRaf = "none"
\* the quorum is reached and the update is queued, but the handlers still
\* read loaded = false
C11_Witness ==
    /\ ~loaded
    /\ pendLoaded = <<TRUE>>
    /\ checks > LoadQuorum
    /\ pipes = <<>> /\ ~running /\ intervals = 0

\* C12: loaded is set (queued, then rendered) exactly when more than
\* LoadQuorum asset callbacks have fired, it never returns to false, and once
\* every frame image has fired its callback loaded eventually becomes true,
\* whether the fallback image loads or fails.
C12_LoadedQuorum ==
    /\ [](checks > LoadQuorum <=> loaded \/ pendLoaded = <<TRUE>>)
    /\ [](pendLoaded # <<>> => pendLoaded = <<TRUE>>)
    /\ [][loaded => loaded']_vars
    /\ <>loaded
\* ready although the fallback image failed: the four frame callbacks alone
\* made the quorum
C12_Witness ==
    /\ loaded
    /\ ~fallbackLeft
    /\ framesLeft = 0
    /\ checks = EXPECTED_FRAMES

\* one whole point of the displayed score, in the unit of the score variable
WholePoint == 2 * ScoreInc
\* the right edge of obstacle p is strictly left of the player's left edge
LeftOfPlayer(p, b) == p.x + p.width < b.x
\* the pairs of ps, by the index of their upper half
PairsOf(ps) == { i \in 1..Len(ps) : i % 2 = 1 /\ i + 1 <= Len(ps) }

\* C13: the two halves of every pair carry the same passed flag, set exactly
\* when the pair's right edge is strictly left of the player's left edge; a
\* tick raises the score by one whole point per pair that moves past the
\* player in that tick, a start sets it to 0 and nothing else changes it, so
\* the score is always a whole number: the pairs crossed since the start.
C13_PairScore ==
    /\ [](score % WholePoint = 0)
    /\ [](\A i \in PairsOf(pipes) :
            /\ pipes[i].passed = pipes[i + 1].passed
            /\ pipes[i].passed <=> LeftOfPlayer(pipes[i], bird)
            /\ pipes[i + 1].passed <=> LeftOfPlayer(pipes[i + 1], bird))
    /\ [][ Tick =>
            LET crossing == { i \in PairsOf(pipes) :
                                /\ ~LeftOfPlayer(pipes[i], bird)
                                /\ LeftOfPlayer([pipes[i] EXCEPT !.x = @ + PipeStep], bird') }
            IN  score' = score + WholePoint * Cardinality(crossing)
       ]_vars
    /\ [][IsStart => score' = 0]_vars
    /\ [][~Tick /\ ~IsStart => score' = score]_vars
\* two pairs crossed without a collision: the score is exactly two points
C13_Witness ==
    /\ score = 2 * WholePoint
    /\ ~gameOver
    /\ Len(pipes) >= 4
    /\ pipes[1].passed /\ pipes[2].passed /\ pipes[3].passed /\ pipes[4].passed

\* obstacle p is above or below the player: their x ranges share a point
Alongside(p, b) == p.x < b.x + b.width /\ b.x < p.x + p.width

\* C14: a tick sets the game-over flag if and only if, after it, the player
\* overlaps a live obstacle or its y is strictly greater than the ground
\* line; so the flag is never set while the player is above the top of the
\* board, or exactly on the ground line, and overlaps no obstacle.
C14_GameOverIff ==
    /\ [][ Tick =>
            (gameOver' <=>
                \/ \E i \in 1..Len(pipes') : Overlaps(bird', pipes'[i])
                \/ bird'.y > GroundLine)
       ]_vars
    /\ [](bird.y < 0 /\ ~PlayerOverlapsObstacle => ~gameOver)
    /\ [](bird.y = GroundLine /\ ~PlayerOverlapsObstacle => ~gameOver)
\* the player flies over a pair: above the board and above the top of every
\* upper obstacle, one of which is right below it, and the game goes on
C14_Witness ==
    /\ bird.y < 0
    /\ ~gameOver
    /\ stepRaf = "rearmed"
    /\ \E i \in 1..Len(pipes) : Alongside(pipes[i], bird)
    /\ \A i \in 1..Len(pipes) :
          pipes[i].img = "top" => bird.y + bird.height < pipes[i].y
\* the player exactly on the ground line after a tick, the game going on
C14_OnGroundLine ==
    /\ bird.y = GroundLine
    /\ ~gameOver
    /\ stepRaf = "rearmed"

\* C15: however ticks and spawn-timer callbacks interleave, the obstacle
\* sequence has even length and its x is non-decreasing from head to tail,
\* so no off-screen obstacle stands behind an on-screen one.
C15_OrderedEvenSequence ==
    /\ Len(pipes) % 2 = 0
    /\ \A i \in 1..Len(pipes) : \A j \in i..Len(pipes) :
          /\ pipes[i].x <= pipes[j].x
          /\ OffScreen(pipes[j]) => OffScreen(pipes[i])
\* two spawn events between the same two ticks, behind a pair that has moved
C15_Witness ==
    /\ Len(pipes) = 6
    /\ pipes[1].x < pipes[3].x
    /\ pipes[3].x = PIPE_X /\ pipes[5].x = PIPE_X
    /\ ~gameOver

\* C16: whenever the session is Running (running rendered true, no update of
\* it queued, game not over) with the spawn timer armed, a tick is pending.
C16_RunningHasTickArmed ==
    running /\ pendRunning = <<>> /\ ~gameOver /\ intervalRef /\ intervals > 0
        => stepRaf # "none"

\* C17: the opening of every spawned pair, from the bottom edge of the upper
\* half to the top edge of the lower half, starts at or below y = 0, ends
\* at or above the ground line and is taller than the player, so a player
\* fits into it without touching the ground.
C17_OpeningInsideBoard ==
    \A i \in PairsOf(pipes) :
        LET top == pipes[i].y + pipes[i].height
            bottom == pipes[i + 1].y
        IN  /\ 0 <= top
            /\ bottom <= GroundLine
            /\ bottom - top > bird.height
            /\ \E y \in {top, bottom - bird.height} :
                  y >= top /\ y + bird.height <= bottom /\ y <= GroundLine
\* a pair from a draw next to 1: its opening is the highest one
C17_Witness ==
    /\ Len(pipes) = 2
    /\ pipes[1].y + pipes[1].height <= V(PIPE_H \div 4) + V(2)
    /\ pipes[2].y = pipes[1].y + pipes[1].height + V(BOARD_H \div 4)

\* C18: every obstacle a tick removes from the sequence has its passed flag
\* set, and had it set before that tick began: none leaves uncounted.
C18_RecycledWerePassed ==
    [][ Tick /\ Len(pipes') < Len(pipes) =>
          \A i \in 1..(Len(pipes) - Len(pipes')) :
              /\ pipes[i].passed
              /\ LeftOfPlayer(pipes[i], bird)
              /\ OffScreen([pipes[i] EXCEPT !.x = @ + PipeStep])
      ]_vars
\* a counted pair is gone: the score holds its point, and every obstacle
\* still in the sequence is yet to be passed
C18_Witness ==
    /\ score = WholePoint
    /\ Len(pipes) >= 2
    /\ \A i \in 1..Len(pipes) : ~pipes[i].passed
    /\ pipes[1].x < PIPE_X

\* C19: a flap accepted while Running leaves the player's rectangle, the
\* obstacle sequence, the score, the game-over flag, the running flag (as
\* rendered and as queued), the menu flag and the spawn timer as they were.
C19_FlapOnlyVelocity ==
    [][ IsFlap /\ running /\ ~gameOver =>
          /\ bird' = bird
          /\ pipes' = pipes
          /\ score' = score
          /\ gameOver' = gameOver
          /\ running' = running /\ pendRunning' = pendRunning
          /\ showMenu' = showMenu /\ pendShowMenu' = pendShowMenu
          /\ intervalRef' = intervalRef /\ intervals' = intervals
          /\ sinceSpawn' = sinceSpawn
          /\ stepRaf' = stepRaf
      ]_vars
\* a flap taken in mid-game: away from the start position, one pair counted,
\* two pairs on the board or more, and the velocity just set
C19_Witness ==
    /\ running /\ ~gameOver
    /\ velocityY = FlapVelocity
    /\ bird.y # V(BIRD_Y)
    /\ Len(pipes) >= 4
    /\ score = WholePoint

\* C20: the frame index stays in [0, FrameCount) and every change of it is a
\* step of +1 modulo FrameCount, however the idle loop and the tick loop,
\* which share the frame tick counter, take turns.
C20_FrameIndexCycles ==
    /\ [](frameIndex \in 0..(FrameCount - 1))
    /\ [](frameTick \in 0..(2 * FRAME_TICK_RATE - 1))
    /\ [][frameIndex' # frameIndex =>
            frameIndex' = (frameIndex + 1) % FrameCount]_vars
\* the last frame shown while the tick loop runs, the shared counter pushed
\* to the tick loop's rate by the idle loop
C20_Witness ==
    /\ frameIndex = FrameCount - 1
    /\ frameTick = FRAME_TICK_RATE
    /\ stepRaf = "rearmed"
    /\ ~gameOver
====
